---- MODULE Spec2Model ----
(***************************************************************************)
(* Model of sql/uniques.cc: the Unique duplicate-elimination object        *)
(* (constructor, flush, get) and its callers' insertion driver.            *)
(*                                                                         *)
(* Keys are fixed-size records compared by the caller's comparator; here   *)
(* a key is a number of 1..MaxKey and the comparator is <.  The temp file  *)
(* is the sequence of keys written to it, so that my_b_tell(&file) is      *)
(* Len(file) * size.                                                       *)
(***************************************************************************)
EXTENDS Integers, Sequences, FiniteSets, TLC

\* ---------------------------------------------------------------- bounds
MaxKey == 3
MaxAdds == 4
MaxCap == 3
\* the largest key count the cost estimate is asked about
MaxNKeys == 34

\* ------------------------------------------------------ program constants
\* sizeof(TREE_ELEMENT): two child pointers and the count/colour word
TreeElementSize == 24
\* ALIGN_SIZE rounds up to a multiple of sizeof(double)
AlignUnit == 8
IO_SIZE == 4096
TIME_FOR_COMPARE_ROWID == 10
MERGEBUFF == 7
MERGEBUFF2 == 15
\* sizeof(uint), the step of a uint* increment
UintSize == 4

Keys == 1..MaxKey
Sizes == {8, 16}
Budgets == {1} \cup {40 * c : c \in 1..MaxCap}

VARIABLES
  size,                \* Unique::size
  max_in_memory_size,  \* Unique::max_in_memory_size
  max_elements,        \* Unique::max_elements
  tree,                \* Unique::tree, as the set of keys it holds
  elements,            \* Unique::elements
  file_ptrs,           \* Unique::file_ptrs, the BUFFPEK array
  file,                \* Unique::file, the keys written so far
  pc,                  \* "adding", "done" (get returned), "failed" (add returned 1)
  hist,                \* the keys passed to unique_add, in call order
  accepted,            \* number of tree_insert calls that added a key
  flushed,             \* live count of the tree at each flush that returned 0
  lastflush,           \* the last flush call: its result and the directory before it
  rc,                  \* what get returned (0 or 1); -1 before get
  path,                \* which branch of get produced the output
  out,                 \* the keys delivered: record_pointers or the outfile
  found_records,       \* table->sort.found_records
  fault,               \* the faults get met
  nkeys,               \* get_use_cost: its nkeys argument
  key_size,            \* get_use_cost: its key_size argument
  cost_budget,         \* get_use_cost: its max_in_memory_size argument
  cost,                \* get_use_cost: where the call is, and result
  sim                  \* get_use_cost and get_merge_many_buffs_cost: their locals

vars == <<size, max_in_memory_size, max_elements, tree, elements, file_ptrs,
          file, pc, hist, accepted, flushed, lastflush, rc, path, out,
          found_records, fault, nkeys, key_size, cost_budget, cost, sim>>

costvars == <<nkeys, key_size, cost_budget, cost, sim>>

\* ----------------------------------------------------------- pure helpers
ALIGN_SIZE(a) == ((a + AlignUnit - 1) \div AlignUnit) * AlignUnit

Min(S) == CHOOSE x \in S : \A y \in S : x <= y

RECURSIVE SortedSeq(_)
\* in-order (left_root_right) traversal of the tree
SortedSeq(S) == IF S = {} THEN <<>>
                ELSE <<Min(S)>> \o SortedSeq(S \ {Min(S)})

Range(s) == {s[i] : i \in 1..Len(s)}

RECURSIVE SumCounts(_)
SumCounts(ptrs) == IF ptrs = <<>> THEN 0
                   ELSE ptrs[1].count + SumCounts(Tail(ptrs))

\* my_b_tell(&file): the write position in bytes
my_b_tell(f, sz) == Len(f) * sz

\* The object's fields as one record, so that operations are functions of it.
Self == [size |-> size, max_in_memory_size |-> max_in_memory_size,
         max_elements |-> max_elements, tree |-> tree, elements |-> elements,
         file_ptrs |-> file_ptrs, file |-> file]

\* Unique::Unique
Construct(sz, mem) ==
  [size |-> sz, max_in_memory_size |-> mem,
   max_elements |-> mem \div ALIGN_SIZE(TreeElementSize + sz),
   tree |-> {}, elements |-> 0, file_ptrs |-> <<>>, file |-> <<>>]

\* unique_write_to_file: one my_b_write of size bytes; ok = the write succeeded
unique_write_to_file(f, key, ok) ==
  [rc |-> IF ok THEN 0 ELSE 1, file |-> IF ok THEN Append(f, key) ELSE f]

RECURSIVE tree_walk_write(_, _, _, _)
\* tree_walk(&tree, unique_write_to_file, this, left_root_right): visits the
\* keys in order and stops at the first write that fails (the failAt-th; 0 = none)
tree_walk_write(keys, f, failAt, i) ==
  IF keys = <<>> THEN [rc |-> 0, file |-> f]
  ELSE LET w == unique_write_to_file(f, Head(keys), i # failAt)
       IN IF w.rc # 0 THEN w
          ELSE tree_walk_write(Tail(keys), w.file, failAt, i + 1)

\* flush with my_b_tell read after the walk instead of before it
flush_pos_after_walk(s, failAt, insOk) ==
  LET n == Cardinality(s.tree)
      w == tree_walk_write(SortedSeq(s.tree), s.file, failAt, 1)
      file_ptr == [count |-> n, file_pos |-> my_b_tell(w.file, s.size)]
      s1 == [s EXCEPT !.elements = s.elements + n, !.file = w.file]
  IN IF w.rc # 0 THEN [obj |-> s1, rc |-> 1]
     ELSE IF ~insOk THEN [obj |-> s1, rc |-> 1]
     ELSE [obj |-> [s1 EXCEPT !.file_ptrs = Append(s.file_ptrs, file_ptr),
                              !.tree = {}],
           rc |-> 0]

\* flush that takes the descriptor's count after delete_tree
flush_count_after_delete(s, failAt, insOk) ==
  LET n == Cardinality(s.tree)
      file_ptr == [count |-> 0, file_pos |-> my_b_tell(s.file, s.size)]
      w == tree_walk_write(SortedSeq(s.tree), s.file, failAt, 1)
      s1 == [s EXCEPT !.elements = s.elements + n, !.file = w.file]
  IN IF w.rc # 0 THEN [obj |-> s1, rc |-> 1]
     ELSE IF ~insOk THEN [obj |-> s1, rc |-> 1]
     ELSE [obj |-> [s1 EXCEPT !.file_ptrs = Append(s.file_ptrs, file_ptr),
                              !.tree = {}],
           rc |-> 0]

\* flush that appends the descriptor before it walks the tree
flush_insert_before_walk(s, failAt, insOk) ==
  LET n == Cardinality(s.tree)
      file_ptr == [count |-> n, file_pos |-> my_b_tell(s.file, s.size)]
      w == tree_walk_write(SortedSeq(s.tree), s.file, failAt, 1)
      s1 == [s EXCEPT !.elements = s.elements + n, !.file = w.file,
                      !.file_ptrs = IF insOk THEN Append(s.file_ptrs, file_ptr)
                                    ELSE s.file_ptrs]
  IN IF ~insOk THEN [obj |-> s1, rc |-> 1]
     ELSE IF w.rc # 0 THEN [obj |-> s1, rc |-> 1]
     ELSE [obj |-> [s1 EXCEPT !.tree = {}], rc |-> 0]

\* Unique::flush.  failAt: which key write fails (0 = none); insOk: insert_dynamic
\* succeeds.  Returns the object after the call, with the result in rc.
flush(s, failAt, insOk) ==
  LET n == Cardinality(s.tree)
      file_ptr == [count |-> n, file_pos |-> my_b_tell(s.file, s.size)]
      w == tree_walk_write(SortedSeq(s.tree), s.file, failAt, 1)
      s1 == [s EXCEPT !.elements = s.elements + n, !.file = w.file]
  IN IF w.rc # 0 THEN [obj |-> s1, rc |-> 1]
     ELSE IF ~insOk THEN [obj |-> s1, rc |-> 1]
     ELSE [obj |-> [s1 EXCEPT !.file_ptrs = Append(s.file_ptrs, file_ptr),
                              !.tree = {}],
           rc |-> 0]

\* tree_insert of the ordered container: a key equal to a stored one is not
\* stored again; ok = the node allocation succeeds
tree_insert(t, key, ok) ==
  IF key \in t THEN [tree |-> t, rc |-> 0, added |-> FALSE]
  ELSE IF ok THEN [tree |-> t \cup {key}, rc |-> 0, added |-> TRUE]
  ELSE [tree |-> t, rc |-> 1, added |-> FALSE]

\* unique_add, the insertion driver: a buffer at capacity is flushed first,
\* then the key is inserted.  called/flrc report the flush it made, if any.
unique_add(s, key, failAt, insOk, treeOk) ==
  LET full == Cardinality(s.tree) >= s.max_elements
      fl == IF full THEN flush(s, failAt, insOk) ELSE [obj |-> s, rc |-> 0]
      ins == tree_insert(fl.obj.tree, key, treeOk)
  IN IF fl.rc # 0
       THEN [obj |-> fl.obj, rc |-> 1, called |-> full, flrc |-> fl.rc,
             added |-> FALSE]
       ELSE [obj |-> [fl.obj EXCEPT !.tree = ins.tree], rc |-> ins.rc,
             called |-> full, flrc |-> fl.rc, added |-> ins.added]

\* unique_write_to_ptrs that moves record_pointers the wrong way
unique_write_to_ptrs_backwards(ptrs, key) == <<key>> \o ptrs

\* unique_write_to_ptrs: copy one key to record_pointers and advance it
unique_write_to_ptrs(ptrs, key) == Append(ptrs, key)

RECURSIVE tree_walk_ptrs(_, _)
\* tree_walk(&tree, unique_write_to_ptrs, this, left_root_right)
tree_walk_ptrs(keys, ptrs) ==
  IF keys = <<>> THEN ptrs
  ELSE tree_walk_ptrs(Tail(keys), unique_write_to_ptrs(ptrs, Head(keys)))

\* the keys of one run, read back from the temp file through its descriptor
ReadRun(f, ptr, sz) ==
  LET first == ptr.file_pos \div sz
  IN {f[i] : i \in {j \in (first + 1)..(first + ptr.count) : j <= Len(f)}}

\* merge_many_buff followed by merge_buffers with unique_buff set: the runs the
\* directory describes, merged into one ascending duplicate-free sequence
merge_buffers(f, ptrs, sz) ==
  SortedSeq(UNION {ReadRun(f, ptrs[i], sz) : i \in 1..Len(ptrs)})

Prefix(s, n) == SubSeq(s, 1, IF n < Len(s) THEN n ELSE Len(s))

\* the places where get can fail after its flush, in program order
GetSteps == {"none", "outfile_alloc", "outfile_open", "sort_alloc",
             "merge_many_buff", "reinit_file", "merge_buffers", "flush_out",
             "reinit_out"}

\* get without the whole-tree-in-memory branch
get_always_flush(s, flatOk, failAt, insOk, step, cut) ==
  LET found == s.elements + Cardinality(s.tree)
      fl == flush(s, failAt, insOk)
      merged == merge_buffers(fl.obj.file, fl.obj.file_ptrs, s.size)
      res(o, r, p, q, fs) == [obj |-> o, rc |-> r, path |-> p, out |-> q,
                              found_records |-> found, faults |-> fs]
  IN IF fl.rc # 0
       THEN res(fl.obj, 1, "merge", <<>>, {"flush"})
     ELSE IF step \in {"outfile_alloc", "outfile_open", "sort_alloc",
                       "merge_many_buff", "reinit_file"}
       THEN res(fl.obj, 1, "merge", <<>>, {step})
     ELSE IF step \in {"merge_buffers", "flush_out"}
       THEN res(fl.obj, 1, "merge", Prefix(merged, cut), {step})
     ELSE IF step = "reinit_out"
       THEN res(fl.obj, 1, "merge", merged, {step})
     ELSE res(fl.obj, 0, "merge", merged, {})

\* get that does not test the result of the sort_buffer my_malloc
get_unchecked_sort_buffer(s, flatOk, failAt, insOk, step, cut) ==
  LET found == s.elements + Cardinality(s.tree)
      inmem == my_b_tell(s.file, s.size) = 0
      f0 == IF inmem /\ ~flatOk THEN {"flat_alloc"} ELSE {}
      fl == flush(s, failAt, insOk)
      merged == merge_buffers(fl.obj.file, fl.obj.file_ptrs, s.size)
      res(o, r, p, q, fs) == [obj |-> o, rc |-> r, path |-> p, out |-> q,
                              found_records |-> found, faults |-> fs]
  IN IF inmem /\ flatOk
       THEN res(s, 0, "memory", tree_walk_ptrs(SortedSeq(s.tree), <<>>), {})
     ELSE IF fl.rc # 0
       THEN res(fl.obj, 1, "merge", <<>>, f0 \cup {"flush"})
     ELSE IF step \in {"outfile_alloc", "outfile_open",
                       "merge_many_buff", "reinit_file"}
       THEN res(fl.obj, 1, "merge", <<>>, f0 \cup {step})
     ELSE IF step \in {"merge_buffers", "flush_out"}
       THEN res(fl.obj, 1, "merge", Prefix(merged, cut), f0 \cup {step})
     ELSE IF step = "reinit_out"
       THEN res(fl.obj, 1, "merge", merged, f0 \cup {step})
     ELSE IF step = "sort_alloc"
       THEN res(fl.obj, 0, "merge", merged, f0 \cup {step})
     ELSE res(fl.obj, 0, "merge", merged, f0)

\* Unique::get.  flatOk: the my_malloc of the flat region succeeds; failAt,
\* insOk: as for flush; step: the later step that fails; cut: how many keys
\* reached the outfile when the merge or its flush fails.
get(s, flatOk, failAt, insOk, step, cut) ==
  LET found == s.elements + Cardinality(s.tree)
      inmem == my_b_tell(s.file, s.size) = 0
      f0 == IF inmem /\ ~flatOk THEN {"flat_alloc"} ELSE {}
      fl == flush(s, failAt, insOk)
      merged == merge_buffers(fl.obj.file, fl.obj.file_ptrs, s.size)
      res(o, r, p, q, fs) == [obj |-> o, rc |-> r, path |-> p, out |-> q,
                              found_records |-> found, faults |-> fs]
  IN IF inmem /\ flatOk
       THEN res(s, 0, "memory", tree_walk_ptrs(SortedSeq(s.tree), <<>>), {})
     ELSE IF fl.rc # 0
       THEN res(fl.obj, 1, "merge", <<>>, f0 \cup {"flush"})
     ELSE IF step \in {"outfile_alloc", "outfile_open", "sort_alloc",
                       "merge_many_buff", "reinit_file"}
       THEN res(fl.obj, 1, "merge", <<>>, f0 \cup {step})
     ELSE IF step \in {"merge_buffers", "flush_out"}
       THEN res(fl.obj, 1, "merge", Prefix(merged, cut), f0 \cup {step})
     ELSE IF step = "reinit_out"
       THEN res(fl.obj, 1, "merge", merged, f0 \cup {step})
     ELSE res(fl.obj, 0, "merge", merged, f0)

\* ------------------------------------------------------ the cost estimate
\* Costs are doubles in the program.  Here a cost is a whole number of
\* 1/Scale disk seeks; Scale is a multiple of IO_SIZE, so the I/O terms are
\* exact, and the logarithms are rounded to the nearest 1/Scale.
Scale == IO_SIZE * 250

\* DISK_SEEK_BASE_COST, 0.5
DISK_SEEK_BASE_COST == Scale \div 2

\* (log(2*M_PI*x)/2 + x*log(x/M_E)) / M_LN2 for x = 1, 2, ..., times Scale
Log2NFactTab ==
  <<-119754, 962927, 2606112, 4664287, 7048066, 9699158,
     12576814, 15651008, 18898719, 22301740, 25845316, 29517249,
     33307288, 37206696, 41207938, 45304450, 49490465, 53760870,
     58111108, 62537086, 67035112, 71601837, 76234207, 80929432,
     85684946, 90498385, 95367566, 100290460, 105265184, 110289981,
     115363211, 120483335, 125648911, 130858583, 136111072, 141405173,
     146739746, 152113711, 157526046, 162975779, 168461987, 173983792,
     179540355, 185130878, 190754598, 196410785, 202098741, 207817797,
     213567312, 219346671, 225155283, 230992580, 236858015, 242751063,
     248671217, 254617988, 260590906, 266589516, 272613378, 278662069,
     284735178, 290832307, 296953073, 303097104>>
\* log(n) / M_LN2 for n = 1, 2, ..., times Scale
Log2Tab ==
  <<0, 1024000, 1623002, 2048000, 2377654, 2647002,
     2874731, 3072000, 3246003, 3401654, 3542458, 3671002,
     3789250, 3898731, 4000656, 4096000>>

\* log2_n_fact
log2_n_fact(x) == Log2NFactTab[x]

\* ceil of a quotient of two whole numbers taken as doubles
CeilDiv(a, b) == (a + b - 1) \div b

RECURSIVE SumElems(_, _, _)
\* the for loop of get_merge_buffers_cost
SumElems(buff, first, last) ==
  IF first > last THEN 0 ELSE buff[first] + SumElems(buff, first + 1, last)

\* get_merge_buffers_cost: the cost of merging buff[first..last]; the sum of
\* their element counts is stored in *last (output_buff is not used)
get_merge_buffers_cost(buff, elem_size, first, last) ==
  LET total_buf_elems == SumElems(buff, first, last)
      n_buffers == last - first + 1
  IN [buff |-> [buff EXCEPT ![last] = total_buf_elems],
      cost |-> 2 * total_buf_elems * elem_size * (Scale \div IO_SIZE)
               + (total_buf_elems * Log2Tab[n_buffers])
                   \div TIME_FOR_COMPARE_ROWID]

RECURSIVE merge_pass(_, _, _, _, _, _, _)
\* merge_pass with a pointer lastbuff that is stepped by 8 per call, the
\* size of a 64-bit element, where uint has UintSize bytes
merge_pass_wide(buff, elem_size, maxbuffer, i, lastbuff, total_cost, groups) ==
  IF i <= maxbuffer - (MERGEBUFF * 3) \div 2
    THEN LET m == get_merge_buffers_cost(buff, elem_size, i, i + MERGEBUFF - 1)
         IN merge_pass(m.buff, elem_size, maxbuffer, i + MERGEBUFF,
                       lastbuff + 8, total_cost + m.cost,
                       Append(groups, [first |-> i, last |-> i + MERGEBUFF - 1]))
    ELSE LET m == get_merge_buffers_cost(buff, elem_size, i, maxbuffer)
         IN [buff |-> m.buff, maxbuffer |-> (lastbuff + 8) - 1,
             total_cost |-> total_cost + m.cost,
             groups |-> Append(groups, [first |-> i, last |-> maxbuffer])]

\* one pass of the while loop of get_merge_many_buffs_cost, from the for loop
\* at index i on.  lastbuff is the value of the pointer lastbuff, which starts
\* at 0 and is stepped once per call; the pass ends with maxbuffer set to
\* (uint) lastbuff - 1.  groups collects the [first, last] index pairs the
\* pass handed to get_merge_buffers_cost, in call order.
merge_pass(buff, elem_size, maxbuffer, i, lastbuff, total_cost, groups) ==
  IF i <= maxbuffer - (MERGEBUFF * 3) \div 2
    THEN LET m == get_merge_buffers_cost(buff, elem_size, i, i + MERGEBUFF - 1)
         IN merge_pass(m.buff, elem_size, maxbuffer, i + MERGEBUFF,
                       lastbuff + UintSize, total_cost + m.cost,
                       Append(groups, [first |-> i, last |-> i + MERGEBUFF - 1]))
    ELSE LET m == get_merge_buffers_cost(buff, elem_size, i, maxbuffer)
         IN [buff |-> m.buff, maxbuffer |-> (lastbuff + UintSize) - 1,
             total_cost |-> total_cost + m.cost,
             groups |-> Append(groups, [first |-> i, last |-> maxbuffer])]

RECURSIVE merge_passes(_, _, _, _)
\* the while loop of get_merge_many_buffs_cost and the final merge after it
merge_passes(buff, elem_size, maxbuffer, total_cost) ==
  IF maxbuffer >= MERGEBUFF2
    THEN LET p == merge_pass(buff, elem_size, maxbuffer, 0, 0, total_cost, <<>>)
         IN merge_passes(p.buff, elem_size, p.maxbuffer, p.total_cost)
    ELSE total_cost + get_merge_buffers_cost(buff, elem_size, 0, maxbuffer).cost

\* the initial state of get_merge_many_buffs_cost: maxbuffer sequences of
\* max_n_elems elements and a last one of last_n_elems
initial_buff_elems(maxbuffer, max_n_elems, last_n_elems) ==
  [i \in 0..maxbuffer |-> IF i < maxbuffer THEN max_n_elems ELSE last_n_elems]

\* get_merge_many_buffs_cost
get_merge_many_buffs_cost(maxbuffer, max_n_elems, last_n_elems, elem_size) ==
  merge_passes(initial_buff_elems(maxbuffer, max_n_elems, last_n_elems),
               elem_size, maxbuffer, 0)

\* get_use_cost, "Calculate cost of creating trees": the number of compares,
\* before it is divided by TIME_FOR_COMPARE_ROWID
tree_compares(max_elements_in_tree, n_full_trees, last_tree_elems) ==
  2 * log2_n_fact(last_tree_elems + 1)
    + (IF n_full_trees # 0
         THEN n_full_trees * log2_n_fact(max_elements_in_tree + 1)
         ELSE 0)

\* get_use_cost, the cost of writing all trees to disk
write_cost(ksize, max_elements_in_tree, n_full_trees, last_tree_elems) ==
  DISK_SEEK_BASE_COST * n_full_trees
      * ((ksize * max_elements_in_tree) \div IO_SIZE)
    + DISK_SEEK_BASE_COST * ((ksize * last_tree_elems) \div IO_SIZE)

\* get_use_cost, the cost of reading the resulting sequence
read_cost(n, ksize) == Scale * CeilDiv(ksize * n, IO_SIZE)

\* the body of Unique::get_use_cost once the quotient and the remainder of
\* nkeys by max_elements_in_tree are known
use_cost(n, ksize, max_elements_in_tree, n_full_trees, last_tree_elems) ==
  LET trees == tree_compares(max_elements_in_tree, n_full_trees,
                             last_tree_elems) \div TIME_FOR_COMPARE_ROWID
      writes == write_cost(ksize, max_elements_in_tree, n_full_trees,
                           last_tree_elems)
      merge_cost == get_merge_many_buffs_cost(n_full_trees, max_elements_in_tree,
                                              last_tree_elems, ksize)
  IN IF n_full_trees = 0 THEN trees
     ELSE trees + writes + merge_cost + read_cost(n, ksize)

\* what a division by zero can do: trap, or yield quotient 0 and leave the
\* dividend as the remainder
DivByZero == {"trap", "zero"}

\* get_use_cost: max_elements_in_tree, n_full_trees and last_tree_elems.
\* ub: what the build does when max_elements_in_tree is 0 and nkeys is
\* divided by it.
tree_sizes(n, ksize, mem, ub) ==
  LET max_elements_in_tree == mem \div ALIGN_SIZE(TreeElementSize + ksize)
  IN IF max_elements_in_tree = 0
       THEN [trap |-> ub = "trap", max_elements_in_tree |-> 0,
             n_full_trees |-> 0, last_tree_elems |-> n]
       ELSE [trap |-> FALSE, max_elements_in_tree |-> max_elements_in_tree,
             n_full_trees |-> n \div max_elements_in_tree,
             last_tree_elems |-> n % max_elements_in_tree]

\* Unique::get_use_cost
get_use_cost(n, ksize, mem, ub) ==
  LET ts == tree_sizes(n, ksize, mem, ub)
  IN IF ts.trap THEN [rc |-> "trap", value |-> 0]
     ELSE [rc |-> "ok",
           value |-> use_cost(n, ksize, ts.max_elements_in_tree,
                              ts.n_full_trees, ts.last_tree_elems)]

NoCost == [rc |-> "none", value |-> 0]

\* the locals before the call: max_elements_in_tree, n_full_trees,
\* last_tree_elems, the compares of tree creation and the write cost of
\* get_use_cost; buff_elems, maxbuffer and total_cost of
\* get_merge_many_buffs_cost; and of the simulation so far: the number of
\* passes of the while loop, maxbuffer and buff_elems before the last pass
\* (before, prev), the index pairs the pass merged (groups), and
\* total_buf_elems of the final merge
NoSim == [max_elements_in_tree |-> 0, n_full_trees |-> 0, last_tree_elems |-> 0,
          compares |-> 0, writes |-> 0,
          buff_elems |-> [i \in 0..0 |-> 0], maxbuffer |-> 0, total_cost |-> 0,
          passes |-> 0, before |-> 0, prev |-> [i \in 0..0 |-> 0],
          groups |-> <<>>, final_total |-> 0]

\* ------------------------------------------------------------ the machine
Init ==
  /\ size \in Sizes
  /\ max_in_memory_size \in Budgets
  /\ max_elements = Construct(size, max_in_memory_size).max_elements
  /\ tree = {}
  /\ elements = 0
  /\ file_ptrs = <<>>
  /\ file = <<>>
  /\ pc = "adding"
  /\ hist = <<>>
  /\ accepted = 0
  /\ flushed = <<>>
  /\ lastflush = [called |-> FALSE, rc |-> 0, wfail |-> FALSE, before |-> <<>>]
  /\ rc = -1
  /\ path = "none"
  /\ out = <<>>
  /\ found_records = 0
  /\ fault = {}
  /\ nkeys = 0
  /\ key_size = 8
  /\ cost_budget = 1
  /\ cost = NoCost
  /\ sim = NoSim

SetObj(o) ==
  /\ tree' = o.tree
  /\ elements' = o.elements
  /\ file_ptrs' = o.file_ptrs
  /\ file' = o.file
  /\ UNCHANGED <<size, max_in_memory_size, max_elements>>

\* The faults a flush of n keys can meet: none, the i-th key write failing, or
\* insert_dynamic failing after every write succeeded.
FlushFaults(n) ==
  {[failAt |-> i, insOk |-> TRUE] : i \in 0..n}
    \cup {[failAt |-> 0, insOk |-> FALSE]}

\* The faults get can meet after its flush: none, a failing step, and for the
\* steps that fail while the outfile is being written, whether a key had
\* reached it.
LaterFaults ==
  {[step |-> st, cut |-> 0] : st \in GetSteps}
    \cup {[step |-> st, cut |-> 1] : st \in {"merge_buffers", "flush_out"}}

\* a caller's unique_add(key)
Add ==
  /\ pc = "adding"
  /\ Len(hist) < MaxAdds
  /\ \E key \in Keys, ff \in FlushFaults(Cardinality(tree)), treeOk \in BOOLEAN :
       LET r == unique_add(Self, key, ff.failAt, ff.insOk, treeOk)
       IN /\ SetObj(r.obj)
          /\ pc' = IF r.rc = 0 THEN "adding" ELSE "failed"
          /\ hist' = Append(hist, key)
          /\ accepted' = IF r.added THEN accepted + 1 ELSE accepted
          /\ flushed' = IF r.called /\ r.flrc = 0
                          THEN Append(flushed, Cardinality(tree)) ELSE flushed
          /\ lastflush' = IF r.called
                            THEN [called |-> TRUE, rc |-> r.flrc,
                                  wfail |-> ff.failAt # 0, before |-> file_ptrs]
                            ELSE lastflush
  /\ UNCHANGED <<rc, path, out, found_records, fault>>
  /\ UNCHANGED costvars

\* the caller's one call of get(table).  A fault is drawn only where get can
\* meet it: no later fault after a failed flush, and no failing my_malloc of
\* the flat region when the file is not empty (it is not called then).
Get ==
  /\ pc = "adding"
  /\ \E flatOk \in BOOLEAN, ff \in FlushFaults(Cardinality(tree)),
        lf \in LaterFaults :
       /\ (ff.failAt # 0 \/ ~ff.insOk) => lf.step = "none"
       /\ my_b_tell(file, size) # 0 => flatOk
       /\ LET r == get(Self, flatOk, ff.failAt, ff.insOk, lf.step, lf.cut)
              called == r.path = "merge"
              flrc == IF "flush" \in r.faults THEN 1 ELSE 0
          IN /\ SetObj(r.obj)
             /\ rc' = r.rc
             /\ path' = r.path
             /\ out' = r.out
             /\ found_records' = r.found_records
             /\ fault' = r.faults
             /\ flushed' = IF called /\ flrc = 0
                             THEN Append(flushed, Cardinality(tree)) ELSE flushed
             /\ lastflush' = IF called
                               THEN [called |-> TRUE, rc |-> flrc,
                                     wfail |-> ff.failAt # 0, before |-> file_ptrs]
                               ELSE lastflush
  /\ pc' = "done"
  /\ UNCHANGED <<hist, accepted>>
  /\ UNCHANGED costvars

Next == Add \/ Get

Spec == Init /\ [][Next]_vars

\* ------------------------------------------- the cost estimate, as a machine
KeySizes == {8, 100}
CostBudgets == {1, 32, 64, 128, 224, 512}

CostInit ==
  /\ size = 8
  /\ max_in_memory_size = 1
  /\ max_elements = 0
  /\ tree = {}
  /\ elements = 0
  /\ file_ptrs = <<>>
  /\ file = <<>>
  /\ pc = "idle"
  /\ hist = <<>>
  /\ accepted = 0
  /\ flushed = <<>>
  /\ lastflush = [called |-> FALSE, rc |-> 0, wfail |-> FALSE, before |-> <<>>]
  /\ rc = -1
  /\ path = "none"
  /\ out = <<>>
  /\ found_records = 0
  /\ fault = {}
  /\ nkeys \in 0..MaxNKeys
  /\ key_size \in KeySizes
  /\ cost_budget \in CostBudgets
  /\ cost = NoCost
  /\ sim = NoSim

\* the planner's call of Unique::get_use_cost, up to its call of
\* get_merge_many_buffs_cost and the initial state that function sets
Estimate ==
  /\ cost.rc = "none"
  /\ \E ub \in DivByZero :
       LET ts == tree_sizes(nkeys, key_size, cost_budget, ub)
           compares == tree_compares(ts.max_elements_in_tree, ts.n_full_trees,
                                     ts.last_tree_elems)
           writes == write_cost(key_size, ts.max_elements_in_tree,
                                ts.n_full_trees, ts.last_tree_elems)
           result == compares \div TIME_FOR_COMPARE_ROWID
           locals == [sim EXCEPT
                        !.max_elements_in_tree = ts.max_elements_in_tree,
                        !.n_full_trees = ts.n_full_trees,
                        !.last_tree_elems = ts.last_tree_elems,
                        !.compares = compares]
       IN IF ts.trap
            THEN cost' = [rc |-> "trap", value |-> 0] /\ sim' = sim
          ELSE IF ts.n_full_trees = 0
            THEN cost' = [rc |-> "ok", value |-> result] /\ sim' = locals
          ELSE /\ cost' = [rc |-> "merging", value |-> result + writes]
               /\ sim' = [locals EXCEPT
                            !.writes = writes,
                            !.buff_elems =
                              initial_buff_elems(ts.n_full_trees,
                                                 ts.max_elements_in_tree,
                                                 ts.last_tree_elems),
                            !.maxbuffer = ts.n_full_trees]
  /\ UNCHANGED <<nkeys, key_size, cost_budget>>
  /\ UNCHANGED <<size, max_in_memory_size, max_elements, tree, elements,
                 file_ptrs, file, pc, hist, accepted, flushed, lastflush, rc,
                 path, out, found_records, fault>>

\* one pass of the while loop of get_merge_many_buffs_cost
MergePass ==
  /\ cost.rc = "merging"
  /\ sim.maxbuffer >= MERGEBUFF2
  /\ LET p == merge_pass(sim.buff_elems, key_size, sim.maxbuffer, 0, 0,
                         sim.total_cost, <<>>)
     IN sim' = [sim EXCEPT !.buff_elems = p.buff, !.maxbuffer = p.maxbuffer,
                           !.total_cost = p.total_cost,
                           !.passes = sim.passes + 1,
                           !.before = sim.maxbuffer,
                           !.prev = sim.buff_elems, !.groups = p.groups]
  /\ UNCHANGED <<nkeys, key_size, cost_budget, cost>>
  /\ UNCHANGED <<size, max_in_memory_size, max_elements, tree, elements,
                 file_ptrs, file, pc, hist, accepted, flushed, lastflush, rc,
                 path, out, found_records, fault>>

\* the final merge of get_merge_many_buffs_cost and the rest of get_use_cost
FinalMerge ==
  /\ cost.rc = "merging"
  /\ sim.maxbuffer < MERGEBUFF2
  /\ LET m == get_merge_buffers_cost(sim.buff_elems, key_size, 0, sim.maxbuffer)
         merge_cost == sim.total_cost + m.cost
     IN /\ sim' = [sim EXCEPT !.buff_elems = m.buff, !.total_cost = merge_cost,
                              !.final_total = m.buff[sim.maxbuffer]]
        /\ cost' = [rc |-> "ok",
                    value |-> cost.value + merge_cost
                                + read_cost(nkeys, key_size)]
  /\ UNCHANGED <<nkeys, key_size, cost_budget>>
  /\ UNCHANGED <<size, max_in_memory_size, max_elements, tree, elements,
                 file_ptrs, file, pc, hist, accepted, flushed, lastflush, rc,
                 path, out, found_records, fault>>

CostNext == Estimate \/ MergePass \/ FinalMerge

CostSpec == CostInit /\ [][CostNext]_vars

\* ------------------------------------------------------------- the claims
\* get returned success
Delivered == pc = "done" /\ rc = 0

\* the keys of the i-th run of the directory
RunKeys(i) == ReadRun(file, file_ptrs[i], size)

\* some key was accepted into two different runs
KeyInTwoRuns ==
  \E i, j \in 1..Len(file_ptrs) : i < j /\ RunKeys(i) \cap RunKeys(j) # {}

Count(seq, k) == Cardinality({i \in 1..Len(seq) : seq[i] = k})

\* C1: after a successful get, the output holds every distinct key that was
\* passed to unique_add, and holds each of them once.
C1_EachKeyOnce ==
  Delivered => /\ Range(out) = Range(hist)
               /\ \A k \in Range(hist) : Count(out, k) = 1

\* a successful merge over at least two runs that share a key
C1_Witness ==
  Delivered /\ path = "merge" /\ Len(file_ptrs) >= 2 /\ KeyInTwoRuns

\* C2: after a successful get, on either path, the output is strictly ascending.
C2_StrictlyAscending ==
  Delivered => \A i \in 1..(Len(out) - 1) : out[i] < out[i + 1]

\* an in-memory delivery of keys that were added out of order
C2_Witness ==
  /\ Delivered /\ path = "memory" /\ Len(out) >= 2
  /\ \E i \in 1..(Len(hist) - 1) : hist[i] > hist[i + 1]

\* the object after the adds of seq, none of which fails
RECURSIVE RunAdds(_, _)
RunAdds(s, seq) ==
  IF seq = <<>> THEN s
  ELSE RunAdds(unique_add(s, Head(seq), 0, TRUE, TRUE).obj, Tail(seq))

\* what a successful get delivers for the adds of seq
Deliver(seq, flatOk) ==
  get(RunAdds(Construct(size, max_in_memory_size), seq),
      flatOk, 0, TRUE, "none", 0).out

\* seq with every occurrence of k removed but the one at position p
KeepOnly(seq, k, p) ==
  LET keep == {i \in 1..Len(seq) : seq[i] # k \/ i = p}
      F[i \in 0..Len(seq)] ==
        IF i = 0 THEN <<>>
        ELSE IF i \in keep THEN Append(F[i - 1], seq[i]) ELSE F[i - 1]
  IN F[Len(seq)]

\* C3: the output of a successful get for a sequence of adds equals the output
\* for the same sequence with any key's repeats removed (one occurrence kept,
\* whichever it is), on whichever path that shorter sequence is delivered.
C3_DuplicateIdempotent ==
  Delivered =>
    \A p \in 1..Len(hist) : \A flatOk \in BOOLEAN :
      out = Deliver(KeepOnly(hist, hist[p], p), flatOk)

\* a key added three times, with repeats on both sides of a flush
C3_Witness ==
  /\ Delivered /\ KeyInTwoRuns
  /\ \E k \in Keys : Count(hist, k) >= 3 /\ accepted < Len(hist)

C5_DirectoryAccounting ==
  Len(flushed) >= 2 =>
    /\ Len(file_ptrs) = Len(flushed)
    /\ \A i \in 1..Len(file_ptrs) : file_ptrs[i].count = flushed[i]
    /\ SumCounts(file_ptrs) + Cardinality(tree) = accepted

\* two flushes made by unique_add, and a key in the tree since
C5_Witness ==
  pc = "adding" /\ Len(flushed) >= 2 /\ tree # {} /\ flushed[2] >= 1

\* C6 as stated: the tree never holds more than max_elements keys.
C6_BufferWithinCapacity == Cardinality(tree) <= max_elements

\* C7 as stated: after a successful get, found_records is the number of keys
\* delivered.
C7_FoundRecordsIsOutputLength == Delivered => found_records = Len(out)

\* the allocations get makes
GetAllocations == {"flat_alloc", "outfile_alloc", "sort_alloc"}

C9_FlushFailureKeepsDirectory ==
  (lastflush.called /\ lastflush.wfail) =>
    /\ lastflush.rc = 1
    /\ file_ptrs = lastflush.before

\* a flush that failed after it had written part of its run, with earlier
\* runs in the directory
C9_Witness ==
  /\ lastflush.called /\ lastflush.wfail
  /\ file_ptrs # <<>>
  /\ Len(file) > SumCounts(file_ptrs)

\* max_elements_in_tree as get_use_cost computes it
TreeCapacity(ksize, mem) == mem \div ALIGN_SIZE(TreeElementSize + ksize)

\* the cost of a call whose max_elements_in_tree is not 0
CostOf(n, ksize, mem) == get_use_cost(n, ksize, mem, "trap").value

\* C10 as stated: with key_size and the budget fixed, no larger key count has
\* a smaller cost; with key_size and the key count fixed, no larger budget
\* has a larger cost.  (Budgets too small for one key are left out.)
C10_CostMonotonic ==
  (cost.rc = "ok" /\ TreeCapacity(key_size, cost_budget) >= 1) =>
    /\ \A n \in nkeys..MaxNKeys :
         CostOf(n, key_size, cost_budget) >= cost.value
    /\ \A b \in CostBudgets :
         b >= cost_budget => CostOf(nkeys, key_size, b) <= cost.value

\* C11 as stated: in every state, the state left by a failed flush included,
\* the counts of the descriptors of file_ptrs add up to elements.
C11_SumCountsIsElements == SumCounts(file_ptrs) = elements

\* the successor of a descriptor in file_ptrs starts after it and not before
\* the end of its run
RunsInOrder(d1, d2) ==
  /\ d2.file_pos > d1.file_pos
  /\ d2.file_pos >= d1.file_pos + d1.count * size

\* C12 as stated: the offsets of file_ptrs increase strictly in flush order
\* and the runs do not overlap, flushes of an empty tree included.
C12_OffsetsStrictlyIncreasing ==
  \A i \in 1..(Len(file_ptrs) - 1) : RunsInOrder(file_ptrs[i], file_ptrs[i + 1])

\* C12 for objects whose tree holds at least one key when add flushes it
C12_OffsetsIncreaseWithCapacity ==
  max_elements >= 1 => C12_OffsetsStrictlyIncreasing

\* the descriptors that a flush called by unique_add appended: all of
\* file_ptrs while keys are added, and all but the last one once
\* Unique::get has flushed the tree
AddTriggeredRuns ==
  IF pc = "done" /\ path = "merge" /\ "flush" \notin fault
    THEN 1..(Len(file_ptrs) - 1)
    ELSE 1..Len(file_ptrs)

\* C13 as stated: every run written by a flush that unique_add triggered
\* holds exactly max_elements keys.
C13_AddTriggeredRunsAreFull ==
  \A i \in AddTriggeredRuns : file_ptrs[i].count = max_elements

\* C13 for objects whose tree holds at least one key when add flushes it
C13_RunsFullWithCapacity ==
  max_elements >= 1 => C13_AddTriggeredRunsAreFull

\* C14 as stated: the compares of tree creation, before the division by
\* TIME_FOR_COMPARE_ROWID, charge a full tree and the last tree the same
\* 2*log2((N+1)!).
C14_SameFactorForFullTrees ==
  cost.rc \in {"merging", "ok"} =>
    sim.compares = 2 * log2_n_fact(sim.last_tree_elems + 1)
                     + sim.n_full_trees
                         * 2 * log2_n_fact(sim.max_elements_in_tree + 1)

\* C15 as stated: with at least one full tree, each tree written is charged
\* the ceiling of its bytes over IO_SIZE blocks.
C15_WriteCostIsCeiling ==
  (cost.rc \in {"merging", "ok"} /\ sim.n_full_trees >= 1) =>
    sim.writes = DISK_SEEK_BASE_COST
                   * (sim.n_full_trees
                        * CeilDiv(key_size * sim.max_elements_in_tree, IO_SIZE)
                      + CeilDiv(key_size * sim.last_tree_elems, IO_SIZE))

\* a pass of the while loop of get_merge_many_buffs_cost has ended and the
\* next pass or the final merge has not begun
AfterPass == cost.rc = "merging" /\ sim.passes >= 1

\* total_buf_elems of the j-th call of get_merge_buffers_cost in the last pass
CollapseSum(j) ==
  SumElems(sim.prev, sim.groups[j].first, sim.groups[j].last)

\* C16 as stated: after a pass, the runs carried into the next pass are as
\* many as the collapses of the pass, and the counts the next pass reads for
\* them, buff_elems[0 .. maxbuffer], are the sums those collapses produced.
C16_PassCarriesItsCollapses ==
  AfterPass =>
    /\ sim.maxbuffer + 1 = Len(sim.groups)
    /\ \A j \in 1..Len(sim.groups) : sim.buff_elems[j - 1] = CollapseSum(j)

RECURSIVE PassTotal(_)
\* the elements the first j calls of the last pass read
PassTotal(j) == IF j = 0 THEN 0 ELSE PassTotal(j - 1) + CollapseSum(j)

\* C17 as stated: with at least one full tree, every pass processes nkeys
\* elements in all, and the final merge reads and writes nkeys elements.
C17_NoElementLostOrInvented ==
  /\ AfterPass => PassTotal(Len(sim.groups)) = nkeys
  /\ (cost.rc = "ok" /\ sim.n_full_trees >= 1) => sim.final_total = nkeys

\* C17 for calls that reach the final merge without a pass of the while loop
C17_FinalMergeWithoutPasses ==
  (cost.rc = "ok" /\ sim.n_full_trees >= 1 /\ sim.passes = 0) =>
    sim.final_total = nkeys

\* C18: a pass of the while loop leaves maxbuffer smaller than it found it
\* and not negative, and every index that the passes and the final merge
\* read or write lies within 0 .. n_full_trees.
C18_PassesShrinkWithinArray ==
  /\ sim.passes >= 1 =>
       /\ sim.before >= MERGEBUFF2
       /\ sim.maxbuffer >= 0 /\ sim.maxbuffer < sim.before
       /\ \A j \in 1..Len(sim.groups) :
            /\ 0 <= sim.groups[j].first
            /\ sim.groups[j].first <= sim.groups[j].last
            /\ sim.groups[j].last <= sim.n_full_trees
  /\ cost.rc = "merging" => sim.maxbuffer \in 0..sim.n_full_trees

\* the while loop has run two passes and the final merge has followed
C18_Witness ==
  cost.rc = "ok" /\ sim.passes >= 2 /\ sim.maxbuffer < MERGEBUFF2

\* get has returned success without a fault, for keys that were all distinct,
\* on an object whose tree holds at least one key
DistinctKeysDelivered ==
  /\ Delivered /\ fault = {} /\ max_elements >= 1
  /\ hist # <<>> /\ Cardinality(Range(hist)) = Len(hist)

\* C19 as stated: for distinct keys get_use_cost has n_full_trees = 0 exactly
\* when get took the in-memory path, and otherwise n_full_trees + 1 is the
\* number of descriptors in file_ptrs when the merge starts.
C19_EstimatorAgreesOnRuns ==
  DistinctKeysDelivered =>
    LET ts == tree_sizes(Len(hist), size, max_in_memory_size, "trap")
    IN /\ (ts.n_full_trees = 0) <=> (path = "memory")
       /\ path = "merge" => ts.n_full_trees + 1 = Len(file_ptrs)

\* C19 for key counts that are not a multiple of max_elements
C19_AgreesOffMultiples ==
  (DistinctKeysDelivered /\ Len(hist) % max_elements # 0) =>
    C19_EstimatorAgreesOnRuns

\* C20 as stated: a call of get_use_cost returns a cost, and the
\* max_elements_in_tree it divides by is not zero.
C20_CapacityNeverZero ==
  cost.rc # "none" =>
    /\ TreeCapacity(key_size, cost_budget) # 0
    /\ cost.rc # "trap"

====
